---- MODULE Spec2Model ----
(***************************************************************************)
(* libcdkpp: RAII C++ wrapper (cdk.hpp) around the libcdk widget toolkit.  *)
(*                                                                         *)
(* The model has three parts, each with its own specification:             *)
(*   Spec     - object lifetimes: construction, move, destruction of the   *)
(*              wrapper objects, the screen dispatch methods and process   *)
(*              exit, against a toolkit that hands out native handles;     *)
(*   SpecAttr - the getters, setters, activate and inject of the widgets;  *)
(*   SpecStr  - the string helpers over string_views into char buffers.    *)
(***************************************************************************)
EXTENDS Integers, Sequences, FiniteSets, TLC

\* ------------------------------------------------------------------ bounds
\* Number of wrapper object slots (automatic variables and temporaries).
MaxObjs == 3
\* Number of native handles the toolkit can hand out during a run.
MaxHandles == 2

\* Length of the character buffer the caller's string_views point into,
\* its terminating NUL included.
MaxBuf == 3
\* Number of string_views in a StringList.
MaxList == 2
\* Number of lines in a label's message.
MaxLines == 1

Objs == 1..MaxObjs
Handles == 1..MaxHandles
\* nullptr
NULL == 0

\* ------------------------------------------------------- classes and tags
WidgetClasses == {"label", "button", "text_entry", "alpha_list", "calendar"}
\* the widget classes that declare a default constructor
DefaultConstructible == {"label", "button", "alpha_list", "calendar"}
\* the widget classes whose constructor takes the parent as screen&
ByRefParent == {"label", "button", "text_entry", "alpha_list"}

\* widget::type{vNULL}: the tag held by the base class
widget_type == "vNULL"

\* The member `EObjectType type{...}` each derived class declares.  It is a
\* second data member that hides widget::type; it does not initialise it.
DerivedType(c) ==
  CASE c = "label" -> "vLABEL"
    [] c = "button" -> "vBUTTON"
    [] c = "text_entry" -> "vENTRY"
    [] c = "alpha_list" -> "vALPHALIST"
    [] c = "calendar" -> "vCALENDAR"
    [] OTHER -> "vNULL"

\* The tag libcdk stamps on a native object of each kind when it creates it.
ObjTypeOf(k) ==
  CASE k = "label" -> "vLABEL"
    [] k = "button" -> "vBUTTON"
    [] k = "text_entry" -> "vENTRY"
    [] k = "alpha_list" -> "vALPHALIST"
    [] k = "calendar" -> "vCALENDAR"
    [] OTHER -> "vNULL"

\* The destroy function each deleter calls.
deleter(c) ==
  CASE c = "screen" -> "destroyCDKScreen"
    [] c = "label" -> "destroyCDKLabel"
    [] c = "button" -> "destroyCDKButton"
    [] c = "text_entry" -> "destroyCDKEntry"
    [] c = "alpha_list" -> "destroyCDKAlphalist"
    [] c = "calendar" -> "destroyCDKCalendar"

\* The destroy function that matches a native handle of kind k.
MatchingDestroy(k) ==
  CASE k = "screen" -> "destroyCDKScreen"
    [] k = "label" -> "destroyCDKLabel"
    [] k = "button" -> "destroyCDKButton"
    [] k = "text_entry" -> "destroyCDKEntry"
    [] k = "alpha_list" -> "destroyCDKAlphalist"
    [] k = "calendar" -> "destroyCDKCalendar"
    [] OTHER -> "none"

\* ------------------------------------------------------------------ state
VARIABLES
  objs,             \* wrapper objects: storage state, class, _ptr, _vptr, tags
  hkind,            \* toolkit: kind of each native handle, "free" if never made
  destroyed,        \* toolkit: destroy calls received per handle, by function
  hparent,          \* toolkit: the screen handle a widget handle was made on
  registered,       \* toolkit: the screen handle a widget is registered with
  atexit_installed, \* screen::atexit_installed
  atexitRegs,       \* number of atexit(endCDK) registrations
  endCalls,         \* number of endCDK calls
  exited,           \* main has returned and the exit handlers have run
  lastCall,         \* the toolkit call the last screen method made, if any
  mem,              \* the char buffer the caller's string_views point into
  list,             \* the caller's StringList: string_views into mem
  attrs,            \* toolkit: the attributes and message of each widget handle
  lastSet,          \* per attribute, the value the caller last passed to its setter
  ret,              \* what the last helper or widget method returned
  erased,           \* toolkit: the handles erased from the terminal, not redrawn
  pc                \* demo.cpp: the line of main that runs next

vars == <<objs, hkind, destroyed, hparent, registered, atexit_installed,
          atexitRegs, endCalls, exited, lastCall, mem, list, attrs, lastSet, ret,
          erased, pc>>

callvars == <<mem, list, attrs, lastSet, ret>>

toolkit == <<hkind, destroyed, hparent, registered>>
process == <<atexit_installed, atexitRegs, endCalls, exited>>
\* what only the erase and draw methods and the demo's main change
display == <<erased, pc>>

\* storage that holds no object
NoObject == [st |-> "none", cls |-> "none", _ptr |-> NULL, _vptr |-> NULL,
             wtype |-> "vNULL", type |-> "vNULL"]

\* A toolkit call as the model records it: the entry point, the tag and the
\* pointers passed, and (recorded beside them) the class and the owned handle
\* of the wrapper object the caller passed, and what a refresh redrew.
Call(fn, tag, ptr, scr, cls, own, drawn) ==
  [fn |-> fn, tag |-> tag, ptr |-> ptr, scr |-> scr, cls |-> cls,
   own |-> own, drawn |-> drawn]

NoCall == Call("none", "vNULL", NULL, NULL, "none", NULL, {})

\* the terminator of a C string
NUL == 0
\* no attribute written yet
NoAttrs == [a \in {} |-> 0]
\* nothing returned yet
NoReturn == [op |-> "none"]

\* ------------------------------------------------------- toolkit (libcdk)
Live(o) == objs[o].st = "live"
Allocated(h) == hkind[h] # "free"
Released(h) == Len(destroyed[h]) > 0
Alive(h) == Allocated(h) /\ ~Released(h)

FreeHandles == {h \in DOMAIN hkind : hkind[h] = "free"}
\* Handle numbers only name addresses, so Spec, SpecScreen and SpecCalls
\* let the toolkit use the lowest unused number for each new native object.
LowestFirst ==
  \A h \in DOMAIN hkind :
    hkind[h] # "free" => \A g \in DOMAIN hkind : g < h => hkind[g] # "free"

\* validObjType: the toolkit acts on a (tag, pointer) pair only when the
\* pointer is a widget whose own tag is the tag passed.
validObjType(p, tag) ==
  /\ p \in DOMAIN hkind
  /\ Alive(p)
  /\ hkind[p] \in WidgetClasses
  /\ ObjTypeOf(hkind[p]) = tag

\* what a creation call can return: a fresh handle, or NULL on failure
CreationResults == FreeHandles \cup {NULL}

\* newCDK* / initCDKScreen returning h: the toolkit makes a native object of
\* kind k; a widget is made on the screen handle scr.
ToolkitNewKind(hk, k, h) == IF h = NULL THEN hk ELSE [hk EXCEPT ![h] = k]
ToolkitNewParent(hp, h, scr) == IF h = NULL THEN hp ELSE [hp EXCEPT ![h] = scr]
\* "registerObject is called automatically when a widget is created"
ToolkitNewRegistered(r, h, scr) == IF h = NULL THEN r ELSE [r EXCEPT ![h] = scr]

\* destroyCDK*(p): the toolkit releases the native object p; a released
\* widget is on no screen's list any more.
ToolkitDestroy(d, fn, p) == [d EXCEPT ![p] = Append(@, fn)]
ToolkitDestroyRegistered(r, p) == [r EXCEPT ![p] = NULL]

\* registerCDKObject(scr, tag, p)
registerCDKObject(r, scr, tag, p) ==
  IF validObjType(p, tag) THEN [r EXCEPT ![p] = scr] ELSE r

\* unregisterCDKObject(tag, p)
unregisterCDKObject(r, tag, p) ==
  IF validObjType(p, tag) /\ r[p] # NULL THEN [r EXCEPT ![p] = NULL] ELSE r

\* refreshCDKScreen(scr): the widgets redrawn are those registered with scr
refreshCDKScreen(scr) ==
  {h \in DOMAIN hkind : scr # NULL /\ Alive(h) /\ registered[h] = scr}

\* ------------------------------------------ widget methods, the attributes
\* The scalar attributes each widget class has a getter and a setter for.
WidgetAttrs(c) ==
  CASE c = "label" -> {"Box"}
    [] c = "button" -> {"Box"}
    [] c = "text_entry" -> {"Box", "FillerChar", "HiddenChar", "Max", "Min"}
    [] c = "alpha_list" -> {"Box", "CurrentItem", "FillerChar", "Highlight"}
    [] c = "calendar" -> {"Box", "Date", "DayAttribute", "MonthAttribute",
                          "YearAttribute", "Highlight", "Marker"}
    [] OTHER -> {}

\* struct date
date(day, month, year) == [day |-> day, month |-> month, year |-> year]

\* the values the caller passes to the setters
AttrValues(a) ==
  CASE a = "Box" -> BOOLEAN
    [] a = "Date" -> {date(1, 2, 3)}
    [] a = "Marker" -> {{"A_BOLD"}}
    [] OTHER -> {1}

\* the day the caller sets and reads markers on
MarkerDate == date(3, 1, 2)

\* The toolkit entry point set<A> of class c forwards to, named by the
\* attribute of the native object it writes.
SetterEntry(c, a) ==
  CASE c = "label" /\ a = "Box" -> "CDKLabelBox"
    [] c = "button" /\ a = "Box" -> "CDKButtonBox"
    [] c = "text_entry" /\ a = "Box" -> "CDKEntryBox"
    [] c = "text_entry" /\ a = "FillerChar" -> "CDKEntryFillerChar"
    [] c = "text_entry" /\ a = "HiddenChar" -> "CDKEntryHiddenChar"
    [] c = "text_entry" /\ a = "Max" -> "CDKEntryMax"
    [] c = "text_entry" /\ a = "Min" -> "CDKEntryMin"
    [] c = "alpha_list" /\ a = "Box" -> "CDKAlphalistBox"
    [] c = "alpha_list" /\ a = "CurrentItem" -> "CDKAlphalistCurrentItem"
    [] c = "alpha_list" /\ a = "FillerChar" -> "CDKAlphalistFillerChar"
    [] c = "alpha_list" /\ a = "Highlight" -> "CDKAlphalistHighlight"
    [] c = "calendar" /\ a = "Box" -> "CDKCalendarBox"
    [] c = "calendar" /\ a = "Date" -> "CDKCalendarDate"
    [] c = "calendar" /\ a = "DayAttribute" -> "CDKCalendarDayAttribute"
    [] c = "calendar" /\ a = "MonthAttribute" -> "CDKCalendarMonthAttribute"
    [] c = "calendar" /\ a = "YearAttribute" -> "CDKCalendarYearAttribute"
    [] c = "calendar" /\ a = "Highlight" -> "CDKCalendarHighlight"
    [] c = "calendar" /\ a = "Marker" -> "CDKCalendarMarker"

\* a getter wired to the entry point of another attribute of the same widget
GetterEntryCrossed(c, a) ==
  CASE c = "text_entry" /\ a = "Min" -> "CDKEntryMax"
    [] c = "alpha_list" /\ a = "FillerChar" -> "CDKAlphalistHighlight"
    [] c = "calendar" /\ a = "DayAttribute" -> "CDKCalendarMonthAttribute"
    [] OTHER -> SetterEntry(c, a)

\* The toolkit entry point get<A> of class c forwards to.
GetterEntry(c, a) ==
  CASE c = "label" /\ a = "Box" -> "CDKLabelBox"
    [] c = "button" /\ a = "Box" -> "CDKButtonBox"
    [] c = "text_entry" /\ a = "Box" -> "CDKEntryBox"
    [] c = "text_entry" /\ a = "FillerChar" -> "CDKEntryFillerChar"
    [] c = "text_entry" /\ a = "HiddenChar" -> "CDKEntryHiddenChar"
    [] c = "text_entry" /\ a = "Max" -> "CDKEntryMax"
    [] c = "text_entry" /\ a = "Min" -> "CDKEntryMin"
    [] c = "alpha_list" /\ a = "Box" -> "CDKAlphalistBox"
    [] c = "alpha_list" /\ a = "CurrentItem" -> "CDKAlphalistCurrentItem"
    [] c = "alpha_list" /\ a = "FillerChar" -> "CDKAlphalistFillerChar"
    [] c = "alpha_list" /\ a = "Highlight" -> "CDKAlphalistHighlight"
    [] c = "calendar" /\ a = "Box" -> "CDKCalendarBox"
    [] c = "calendar" /\ a = "Date" -> "CDKCalendarDate"
    [] c = "calendar" /\ a = "DayAttribute" -> "CDKCalendarDayAttribute"
    [] c = "calendar" /\ a = "MonthAttribute" -> "CDKCalendarMonthAttribute"
    [] c = "calendar" /\ a = "YearAttribute" -> "CDKCalendarYearAttribute"
    [] c = "calendar" /\ a = "Highlight" -> "CDKCalendarHighlight"
    [] c = "calendar" /\ a = "Marker" -> "CDKCalendarMarker"

\* The arguments a setter passes after the handle, in the order it passes them.
SetterArgs(a, x) ==
  CASE a = "Date" -> <<x.day, x.month, x.year>>
    [] a = "Marker" -> <<MarkerDate.day, MarkerDate.month, MarkerDate.year, x>>
    [] OTHER -> <<x>>

\* The arguments a getter passes after the handle.
GetterArgs(a) ==
  CASE a = "Marker" -> <<MarkerDate.day, MarkerDate.month, MarkerDate.year>>
    [] OTHER -> <<>>

\* What a getter returns, from what the toolkit call gave back: getDate fills
\* d.day, d.month, d.year from the three out-parameters, in that order.
GetterResult(a, t) ==
  CASE a = "Date" -> date(t[1], t[2], t[3])
    [] OTHER -> t

\* the toolkit entry point setMessage and getMessage forward to
MessageEntry(c) ==
  CASE c = "label" -> "CDKLabelMessage"
    [] c = "button" -> "CDKButtonMessage"

\* ---- the toolkit's side of the attributes
ToolkitEntries(k) ==
  {SetterEntry(k, a) : a \in WidgetAttrs(k)}
    \cup (IF k \in {"label", "button"} THEN {MessageEntry(k)} ELSE {})

\* the attributes of a native object as the creation call leaves them
ToolkitInitial(e) ==
  CASE e \in {"CDKLabelBox", "CDKButtonBox", "CDKEntryBox", "CDKAlphalistBox",
              "CDKCalendarBox"} -> FALSE
    [] e = "CDKCalendarDate" -> <<0, 0, 0>>
    [] e = "CDKCalendarMarker" -> {}
    [] e \in {"CDKLabelMessage", "CDKButtonMessage"} -> <<>>
    [] OTHER -> 0

ToolkitNewAttrs(k) == [e \in ToolkitEntries(k) |-> ToolkitInitial(e)]

\* setCDKCalendarMarker: "If more than one marker is set on a single day,
\* then the day will blink with the original marker attribute."
setCDKCalendarMarker(old, marker) ==
  IF old # {} THEN old \cup {"A_BLINK"} ELSE marker

\* set<entry>(h, args...)
ToolkitSet(st, e, args) ==
  CASE e = "CDKCalendarDate" -> [st EXCEPT ![e] = <<args[1], args[2], args[3]>>]
    [] e = "CDKCalendarMarker" ->
         [st EXCEPT ![e] = setCDKCalendarMarker(@, args[4])]
    [] OTHER -> [st EXCEPT ![e] = args[1]]

\* get<entry>(h, args...)
ToolkitGet(st, e, args) == st[e]

\* the attributes after a creation call that returned h
ToolkitNewAttrsOf(at, k, h) ==
  IF h = NULL THEN at ELSE [at EXCEPT ![h] = ToolkitNewAttrs(k)]

\* ------------------------------------------- widget methods, forwarding
\* A method is named by its verb and what the verb applies to: setBox is
\* M("set", "Box"), erase is M("erase", "").
M(verb, what) == [verb |-> verb, what |-> what]

\* the box and background setters every widget class declares
BoxSetters ==
  {M("set", x) : x \in {"BackgroundAttrib", "BackgroundColor", "Box",
                        "BoxAttribute", "HorizontalChar", "LLChar", "LRChar",
                        "ULChar", "URChar", "VerticalChar"}}

\* the methods every widget class declares
CommonMethods ==
  {M("draw", ""), M("erase", ""), M("move", ""), M("position", ""),
   M("set", ""), M("get", "Box")} \cup BoxSetters

\* the methods of each widget class
Methods(c) ==
  CASE c = "label" ->
         CommonMethods \cup {M("get", "Message"), M("set", "Message"),
                             M("wait", "")}
    [] c = "button" ->
         CommonMethods \cup {M("activate", ""), M("inject", ""),
                             M("get", "Message"), M("set", "Message")}
    [] c = "text_entry" ->
         CommonMethods \cup {M("activate", ""), M("inject", ""), M("clean", "")}
           \cup {M("get", x) : x \in {"FillerChar", "HiddenChar", "Max", "Min",
                                      "Value"}}
           \cup {M("set", x) : x \in {"CB", "FillerChar", "HiddenChar",
                                      "Highlight", "Max", "Min", "PostProcess",
                                      "PreProcess", "Value"}}
    [] c = "alpha_list" ->
         CommonMethods \cup {M("activate", ""), M("inject", "")}
           \cup {M("get", x) : x \in {"Contents", "CurrentItem", "FillerChar",
                                      "Highlight"}}
           \cup {M("set", x) : x \in {"Contents", "CurrentItem", "FillerChar",
                                      "Highlight", "PostProcess", "PreProcess"}}
    [] c = "calendar" ->
         CommonMethods \cup {M("activate", ""), M("inject", ""),
                             M("remove", "Marker")}
           \cup {M("get", x) : x \in {"Date", "DayAttribute", "Highlight",
                                      "Marker", "MonthAttribute",
                                      "YearAttribute"}}
           \cup {M("set", x) : x \in {"Date", "DayAttribute", "DaysNames",
                                      "Highlight", "Marker", "MonthAttribute",
                                      "MonthsNames", "PostProcess",
                                      "PreProcess", "YearAttribute"}}
    [] OTHER -> {}

\* A toolkit entry point <verb>CDK<Kind><what>: setCDKLabelBox is
\* Entry("set", "Label", "Box").
Entry(verb, kind, what) == [verb |-> verb, kind |-> kind, what |-> what]

\* the <Kind> in the names of the entry points the methods of class c call
CalledKind(c) ==
  CASE c = "label" -> "Label"
    [] c = "button" -> "Button"
    [] c = "text_entry" -> "Entry"
    [] c = "alpha_list" -> "Alphalist"
    [] c = "calendar" -> "Calendar"

\* the <Kind> by which libcdk names the entry points of a native widget
CDKKind(k) ==
  CASE k = "label" -> "Label"
    [] k = "button" -> "Button"
    [] k = "text_entry" -> "Entry"
    [] k = "alpha_list" -> "Alphalist"
    [] k = "calendar" -> "Calendar"
    [] OTHER -> "none"

\* an erase that called the destroy entry point
ForwardEraseDestroys(c, m) ==
  IF m = M("erase", "")
  THEN Entry("destroy", CalledKind(c), "")
  ELSE Entry(m.verb, CalledKind(c), m.what)

\* The entry point method m of class c calls.  button::inject calls
\* injectCDKButtonbox; every other method calls <verb>CDK<Kind><what>.
Forward(c, m) ==
  IF c = "button" /\ m = M("inject", "")
  THEN Entry("inject", "Buttonbox", "")
  ELSE Entry(m.verb, CalledKind(c), m.what)

\* The arguments after the handle, in the order the method passes them, each
\* named by the caller's parameter (and member) it is taken from.
ForwardArgs(c, m) ==
  CASE m = M("new", "") ->
        (CASE c = "label" ->
                <<"p.x", "p.y", "message.data", "message.size", "opt.box",
                  "opt.shadow">>
           [] c = "button" ->
                <<"p.x", "p.y", "message.data", "cb", "o.box", "o.shadow">>
           [] c = "text_entry" ->
                <<"p.x", "p.y", "title.data", "label.data", "fieldAttribute",
                  "fillerCharacter", "displayType", "fieldWidth",
                  "minimumLength", "maximumLength", "o.box", "o.shadow">>
           [] c = "alpha_list" ->
                <<"p.x", "p.y", "size.height", "size.width", "title.data",
                  "label.data", "list.data", "list.size", "fillerCharacter",
                  "highlight", "o.box", "o.shadow">>
           [] c = "calendar" ->
                <<"p.x", "p.y", "title.data", "d.day", "d.month", "d.year",
                  "attr.day", "attr.month", "attr.year", "highlight", "o.box",
                  "o.shadow">>)
    [] m = M("move", "") -> <<"p.x", "p.y", "o.relative", "o.refresh">>
    [] m \in {M("position", ""), M("erase", ""), M("clean", "")} -> <<>>
    [] m.verb = "get" /\ m.what \notin {"Marker", "Message", "Contents", "Date"}
         -> <<>>
    [] m = M("get", "Message") ->
         IF c = "label" THEN <<"&linesCount">> ELSE <<>>
    [] m = M("get", "Contents") -> <<"&items">>
    [] m = M("get", "Date") -> <<"&d.day", "&d.month", "&d.year">>
    [] m \in {M("get", "Marker"), M("remove", "Marker"), M("set", "Date")} ->
         <<"d.day", "d.month", "d.year">>
    [] m = M("set", "Marker") -> <<"d.day", "d.month", "d.year", "marker">>
    [] m = M("set", "") ->
        (CASE c = "label" -> <<"message.data", "message.size", "box">>
           [] c = "button" -> <<"message.data", "box">>
           [] c = "text_entry" ->
                <<"value.data", "minimumLength", "maximumLength", "box">>
           [] c = "alpha_list" ->
                <<"list.data", "list.size", "fillerCharacter", "highlight",
                  "box">>
           [] c = "calendar" ->
                <<"d.day", "d.month", "d.year", "attr.day", "attr.month",
                  "attr.year", "highlight", "box">>)
    [] m = M("set", "Message") ->
         IF c = "label" THEN <<"message.data", "message.size">>
         ELSE <<"message.data">>
    [] m = M("set", "Contents") -> <<"c.data", "c.size">>
    [] m = M("set", "Highlight") ->
         IF c = "text_entry" THEN <<"highlight", "cursor">> ELSE <<"highlight">>
    [] m.verb = "set" /\ m.what \in {"PostProcess", "PreProcess"} ->
         <<"callback", "data">>
    [] OTHER -> <<"arg">>

\* The parameters of the entry point of native kind k for method m, after the
\* handle, in libcdk's order, each named like the caller's value it is for.
ToolkitParams(k, m) ==
  CASE m = M("new", "") ->
        (CASE k = "label" ->
                <<"p.x", "p.y", "message.data", "message.size", "opt.box",
                  "opt.shadow">>
           [] k = "button" ->
                <<"p.x", "p.y", "message.data", "cb", "o.box", "o.shadow">>
           [] k = "text_entry" ->
                <<"p.x", "p.y", "title.data", "label.data", "fieldAttribute",
                  "fillerCharacter", "displayType", "fieldWidth",
                  "minimumLength", "maximumLength", "o.box", "o.shadow">>
           [] k = "alpha_list" ->
                <<"p.x", "p.y", "size.height", "size.width", "title.data",
                  "label.data", "list.data", "list.size", "fillerCharacter",
                  "highlight", "o.box", "o.shadow">>
           [] k = "calendar" ->
                <<"p.x", "p.y", "title.data", "d.day", "d.month", "d.year",
                  "attr.day", "attr.month", "attr.year", "highlight", "o.box",
                  "o.shadow">>)
    [] m = M("move", "") -> <<"p.x", "p.y", "o.relative", "o.refresh">>
    [] m \in {M("position", ""), M("erase", ""), M("clean", "")} -> <<>>
    [] m.verb = "get" /\ m.what \notin {"Marker", "Message", "Contents", "Date"}
         -> <<>>
    [] m = M("get", "Message") ->
         IF k = "label" THEN <<"&linesCount">> ELSE <<>>
    [] m = M("get", "Contents") -> <<"&items">>
    [] m = M("get", "Date") -> <<"&d.day", "&d.month", "&d.year">>
    [] m \in {M("get", "Marker"), M("remove", "Marker"), M("set", "Date")} ->
         <<"d.day", "d.month", "d.year">>
    [] m = M("set", "Marker") -> <<"d.day", "d.month", "d.year", "marker">>
    [] m = M("set", "") ->
        (CASE k = "label" -> <<"message.data", "message.size", "box">>
           [] k = "button" -> <<"message.data", "box">>
           [] k = "text_entry" ->
                <<"value.data", "minimumLength", "maximumLength", "box">>
           [] k = "alpha_list" ->
                <<"list.data", "list.size", "fillerCharacter", "highlight",
                  "box">>
           [] k = "calendar" ->
                <<"d.day", "d.month", "d.year", "attr.day", "attr.month",
                  "attr.year", "highlight", "box">>)
    [] m = M("set", "Message") ->
         IF k = "label" THEN <<"message.data", "message.size">>
         ELSE <<"message.data">>
    [] m = M("set", "Contents") -> <<"c.data", "c.size">>
    [] m = M("set", "Highlight") ->
         IF k = "text_entry" THEN <<"highlight", "cursor">> ELSE <<"highlight">>
    [] m.verb = "set" /\ m.what \in {"PostProcess", "PreProcess"} ->
         <<"callback", "data">>
    [] OTHER -> <<"arg">>

\* A toolkit call made by a widget method or constructor: a Call (fn is
\* the verb of the entry point) with the entry point in full and the object,
\* the method and the arguments recorded beside it.
ForwardCall(e, p, w, c, m, args) ==
  [fn |-> e.verb, tag |-> "vNULL", ptr |-> p, scr |-> NULL, cls |-> c,
   own |-> p, drawn |-> {}, entry |-> e, obj |-> w, m |-> m, args |-> args]

IsForwardCall(call) == "m" \in DOMAIN call

\* --------------------------------------------------- std::unique_ptr<T,D>
\* ~unique_ptr / reset: the deleter of class c runs on p unless p is null.
unique_ptr_delete(d, c, p) ==
  IF p = NULL THEN d ELSE ToolkitDestroy(d, deleter(c), p)

unique_ptr_delete_registered(r, p) ==
  IF p = NULL THEN r ELSE ToolkitDestroyRegistered(r, p)

\* a move that copied the raw pointer and left the source owning it too
MovedFromCopy(obj) == obj

\* the object a move leaves behind: unique_ptr's move nulls the source _ptr;
\* the base widget's _vptr and type are plain members and are left as they are.
MovedFrom(obj) == [obj EXCEPT !._ptr = NULL]

\* a move that took the base members over but dropped the owned handle
MovedToLeak(src) == [src EXCEPT !.st = "live", !._ptr = NULL]

\* the object a move builds from src: every member taken over from src
MovedTo(src) == [src EXCEPT !.st = "live"]

\* ------------------------------------------------------------- the caller
\* "a widget's parent screen must outlive the widget": the caller releases a
\* screen handle only when no widget made on it is still alive.
MayReleaseScreen(p) ==
  \A h \in DOMAIN hkind :
    ~(Alive(h) /\ hkind[h] \in WidgetClasses /\ hparent[h] = p)

MayRelease(c, p) == c = "screen" /\ p # NULL => MayReleaseScreen(p)
\* Spec, SpecScreen and SpecCalls destroy an object only when the caller may.
MayDestroy(o) == MayRelease(objs[o].cls, objs[o]._ptr)

\* Storage for a new object: slot numbers only name storage, so a constructor
\* always takes the lowest slot that holds no object.
FreeSlots == {o \in DOMAIN objs : objs[o].st = "none"}
\* Spec and SpecScreen use one widget class at a time: a widget of class c
\* is constructed only while no widget object of another class exists.
OneWidgetClass(c) ==
  \A q \in DOMAIN objs : objs[q].cls \in WidgetClasses => objs[q].cls = c

IsFreeSlot(o) == o \in FreeSlots /\ \A q \in FreeSlots : o <= q

\* ------------------------------------------------------------------ screen
\* a constructor that never registered the handler
InstallAtexitNever(installed, regs) == regs

\* a constructor that registered the handler without looking at the flag
InstallAtexitAlways(installed, regs) == regs + 1

\* the atexit registrations after a screen constructor has run
InstallAtexit(installed, regs) == IF ~installed THEN regs + 1 ELSE regs

\* a constructor that registered the handler and left the flag as it was
InstalledFlagKept(installed) == installed

\* screen::atexit_installed after a screen constructor has run
InstalledFlag(installed) == TRUE

\* screen::screen(WINDOW*)
screen_ctor(o) ==
  /\ ~exited
  /\ IsFreeSlot(o)
  /\ \E h \in CreationResults :
       /\ objs' = [objs EXCEPT ![o] =
                     [st |-> "live", cls |-> "screen", _ptr |-> h,
                      _vptr |-> NULL, wtype |-> "vNULL", type |-> "vNULL"]]
       /\ hkind' = ToolkitNewKind(hkind, "screen", h)
       /\ lastCall' = NoCall
  /\ atexitRegs' = InstallAtexit(atexit_installed, atexitRegs)
  /\ atexit_installed' = InstalledFlag(atexit_installed)
  /\ UNCHANGED <<destroyed, hparent, registered, endCalls, exited, callvars>>

\* label/button/text_entry/alpha_list constructor taking `screen& parent`
widget_ctor(c, o, s) ==
  /\ ~exited
  /\ c \in ByRefParent
  /\ IsFreeSlot(o)
  /\ Live(s) /\ objs[s].cls = "screen" /\ objs[s]._ptr # NULL
  /\ \E h \in CreationResults :
       /\ objs' = [objs EXCEPT ![o] =
                     [st |-> "live", cls |-> c, _ptr |-> h, _vptr |-> h,
                      wtype |-> widget_type, type |-> DerivedType(c)]]
       /\ hkind' = ToolkitNewKind(hkind, c, h)
       /\ hparent' = ToolkitNewParent(hparent, h, objs[s]._ptr)
       /\ registered' = ToolkitNewRegistered(registered, h, objs[s]._ptr)
       /\ attrs' = ToolkitNewAttrsOf(attrs, c, h)
       /\ lastCall' = ForwardCall(Forward(c, M("new", "")), objs[s]._ptr, s,
                                  c, M("new", ""), ForwardArgs(c, M("new", "")))
  /\ UNCHANGED <<destroyed, process, mem, list, lastSet, ret>>

\* calendar::calendar(screen parent, ...): the parameter is a screen object
\* of its own, move-constructed from the caller's argument and destroyed when
\* the constructor call is over.
calendar_ctor(o, s) ==
  /\ ~exited
  /\ IsFreeSlot(o)
  /\ Live(s) /\ objs[s].cls = "screen" /\ objs[s]._ptr # NULL
  /\ LET parent == MovedTo(objs[s]) IN
     \E h \in CreationResults :
       /\ objs' = [objs EXCEPT
                     ![s] = MovedFrom(objs[s]),
                     ![o] = [st |-> "live", cls |-> "calendar", _ptr |-> h,
                             _vptr |-> h, wtype |-> widget_type,
                             type |-> DerivedType("calendar")]]
       /\ hkind' = ToolkitNewKind(hkind, "calendar", h)
       /\ hparent' = ToolkitNewParent(hparent, h, parent._ptr)
       /\ registered' = ToolkitNewRegistered(registered, h, parent._ptr)
       /\ destroyed' = unique_ptr_delete(destroyed, "screen", parent._ptr)
       /\ attrs' = ToolkitNewAttrsOf(attrs, "calendar", h)
       /\ lastCall' = ForwardCall(Forward("calendar", M("new", "")),
                                  parent._ptr, s, "calendar", M("new", ""),
                                  ForwardArgs("calendar", M("new", "")))
  /\ UNCHANGED <<process, mem, list, lastSet, ret>>

\* a widget whose base class left _vptr without an initializer: some address
DefaultConstructedUninitialized(c) ==
  [st |-> "live", cls |-> c, _ptr |-> NULL, _vptr |-> 1,
   wtype |-> widget_type, type |-> DerivedType(c)]

\* the object a defaulted default constructor builds: every member from its
\* default member initializer, the unique_ptr empty
DefaultConstructed(c) ==
  [st |-> "live", cls |-> c, _ptr |-> NULL, _vptr |-> NULL,
   wtype |-> widget_type, type |-> DerivedType(c)]

\* label() = default and the other defaulted default constructors
default_ctor(c, o) ==
  /\ ~exited
  /\ c \in DefaultConstructible
  /\ IsFreeSlot(o)
  /\ objs' = [objs EXCEPT ![o] = DefaultConstructed(c)]
  /\ lastCall' = NoCall
  /\ UNCHANGED <<toolkit, process, callvars>>

\* the implicit move constructor: T o(std::move(src))
move_ctor(o, src) ==
  /\ ~exited
  /\ IsFreeSlot(o)
  /\ Live(src)
  /\ objs' = [objs EXCEPT ![o] = MovedTo(objs[src]),
                          ![src] = MovedFrom(objs[src])]
  /\ lastCall' = NoCall
  /\ UNCHANGED <<toolkit, process, callvars>>

\* the implicit move assignment: o = std::move(src)
move_assign(o, src) ==
  /\ ~exited
  /\ Live(o) /\ Live(src)
  /\ objs[o].cls = objs[src].cls
  /\ LET old == objs[o]._ptr
         c == objs[o].cls
     IN IF o = src
        THEN lastCall' = NoCall /\ UNCHANGED <<objs, toolkit>>
        ELSE /\ MayRelease(c, old)
             /\ objs' = [objs EXCEPT ![o] = MovedTo(objs[src]),
                                     ![src] = MovedFrom(objs[src])]
             /\ destroyed' = unique_ptr_delete(destroyed, c, old)
             /\ registered' = unique_ptr_delete_registered(registered, old)
             /\ lastCall' = NoCall
             /\ UNCHANGED <<hkind, hparent>>
  /\ UNCHANGED <<process, callvars>>

\* the implicit destructor
dtor(o) ==
  /\ ~exited
  /\ Live(o)
  /\ LET p == objs[o]._ptr
         c == objs[o].cls
     IN /\ objs' = [objs EXCEPT ![o] = NoObject]
        /\ destroyed' = unique_ptr_delete(destroyed, c, p)
        /\ registered' = unique_ptr_delete_registered(registered, p)
        /\ lastCall' = NoCall
  /\ UNCHANGED <<hkind, hparent, process, callvars>>

\* main returns with every object destroyed; the exit handlers run
exit ==
  /\ ~exited
  /\ \A o \in DOMAIN objs : ~Live(o)
  /\ exited' = TRUE
  /\ endCalls' = endCalls + atexitRegs
  /\ lastCall' = NoCall
  /\ UNCHANGED <<objs, toolkit, atexit_installed, atexitRegs, callvars>>

IsScreen(s) == Live(s) /\ objs[s].cls = "screen"
IsWidget(w) == Live(w) /\ objs[w].cls \in WidgetClasses

\* screen::refresh
refresh(s) ==
  /\ ~exited
  /\ IsScreen(s) /\ objs[s]._ptr # NULL
  /\ lastCall' = Call("refreshCDKScreen", "vNULL", NULL, objs[s]._ptr,
                      "screen", objs[s]._ptr, refreshCDKScreen(objs[s]._ptr))
  /\ UNCHANGED <<objs, toolkit, process, callvars>>

\* screen::lowerObject(widget& w)
lowerObject(w) ==
  /\ ~exited
  /\ IsWidget(w)
  /\ lastCall' = Call("lowerCDKObject", objs[w].wtype, objs[w]._vptr, NULL,
                      objs[w].cls, objs[w]._ptr, {})
  /\ UNCHANGED <<objs, toolkit, process, callvars>>

\* screen::raiseObject(widget& w)
raiseObject(w) ==
  /\ ~exited
  /\ IsWidget(w)
  /\ lastCall' = Call("raiseCDKObject", objs[w].wtype, objs[w]._vptr, NULL,
                      objs[w].cls, objs[w]._ptr, {})
  /\ UNCHANGED <<objs, toolkit, process, callvars>>

\* screen::registerObject(widget& w)
registerObject(s, w) ==
  /\ ~exited
  /\ IsScreen(s) /\ objs[s]._ptr # NULL
  /\ IsWidget(w)
  /\ registered' = registerCDKObject(registered, objs[s]._ptr,
                                     objs[w].wtype, objs[w]._vptr)
  /\ lastCall' = Call("registerCDKObject", objs[w].wtype, objs[w]._vptr,
                      objs[s]._ptr, objs[w].cls, objs[w]._ptr, {})
  /\ UNCHANGED <<objs, hkind, destroyed, hparent, process, callvars>>

\* screen::unregisterObject(widget& w)
unregisterObject(w) ==
  /\ ~exited
  /\ IsWidget(w)
  /\ registered' = unregisterCDKObject(registered, objs[w].wtype, objs[w]._vptr)
  /\ lastCall' = Call("unregisterCDKObject", objs[w].wtype, objs[w]._vptr,
                      NULL, objs[w].cls, objs[w]._ptr, {})
  /\ UNCHANGED <<objs, hkind, destroyed, hparent, process, callvars>>

\* no wrapper object constructed, no native handle handed out
InitObjects ==
  /\ objs = [o \in Objs |-> NoObject]
  /\ hkind = [h \in Handles |-> "free"]
  /\ destroyed = [h \in Handles |-> <<>>]
  /\ hparent = [h \in Handles |-> NULL]
  /\ registered = [h \in Handles |-> NULL]
  /\ atexit_installed = FALSE
  /\ atexitRegs = 0
  /\ endCalls = 0
  /\ exited = FALSE
  /\ lastCall = NoCall
  /\ erased = {}
  /\ pc = "none"

\* no widget method called yet
InitCalls ==
  /\ attrs = [h \in Handles |-> ToolkitNewAttrs("free")]
  /\ lastSet = NoAttrs
  /\ ret = NoReturn

Init ==
  /\ InitObjects
  /\ InitCalls
  /\ mem = <<NUL>>
  /\ list = <<>>

\* Object lifetimes: every construction, move and destruction, and exit.
Next ==
  \/ \E o \in Objs : screen_ctor(o) /\ LowestFirst'
       /\ UNCHANGED display
  \/ \E c \in ByRefParent, o, s \in Objs :
       OneWidgetClass(c) /\ widget_ctor(c, o, s) /\ LowestFirst'
       /\ UNCHANGED display
  \/ \E o, s \in Objs :
       OneWidgetClass("calendar") /\ calendar_ctor(o, s) /\ LowestFirst'
       /\ UNCHANGED display
  \/ \E c \in DefaultConstructible, o \in Objs :
       OneWidgetClass(c) /\ default_ctor(c, o)
       /\ UNCHANGED display
  \/ \E o, src \in Objs : move_ctor(o, src)
       /\ UNCHANGED display
  \/ \E o, src \in Objs : move_assign(o, src)
       /\ UNCHANGED display
  \/ \E o \in Objs :
       MayDestroy(o) /\ dtor(o)
       /\ UNCHANGED display
  \/ exit /\ UNCHANGED display

Spec == Init /\ [][Next]_vars

\* The screen methods, on screens and widgets that are constructed and
\* destroyed while the methods are called.
NextScreen ==
  \/ \E o \in Objs : screen_ctor(o) /\ LowestFirst'
       /\ UNCHANGED display
  \/ \E c \in ByRefParent, o, s \in Objs :
       OneWidgetClass(c) /\ widget_ctor(c, o, s) /\ LowestFirst'
       /\ UNCHANGED display
  \/ \E o, s \in Objs :
       OneWidgetClass("calendar") /\ calendar_ctor(o, s) /\ LowestFirst'
       /\ UNCHANGED display
  \/ \E o \in Objs :
       MayDestroy(o) /\ dtor(o)
       /\ UNCHANGED display
  \/ \E s \in Objs : refresh(s)
       /\ UNCHANGED display
  \/ \E w \in Objs : lowerObject(w)
       /\ UNCHANGED display
  \/ \E w \in Objs : raiseObject(w)
       /\ UNCHANGED display
  \/ \E s, w \in Objs : registerObject(s, w)
       /\ UNCHANGED display
  \/ \E w \in Objs : unregisterObject(w)
       /\ UNCHANGED display

SpecScreen == Init /\ [][NextScreen]_vars

\* --------------------------------------------------------- string helpers
\* the characters of the texts, besides NUL
Chars == {1, 2}

SeqsUpTo(S, n) == UNION {[1..k -> S] : k \in 0..n}

\* The storage the caller's strings live in: a char array that ends with a
\* NUL, as a string literal or a std::string's buffer does.
Buffers ==
  {b \in SeqsUpTo(Chars \cup {NUL}, MaxBuf) : Len(b) >= 1 /\ b[Len(b)] = NUL}

\* std::string_view: a pointer into the buffer (an index) and a length; the
\* views considered denote text, without a NUL in it
Views(b) ==
  {s \in [off : 1..Len(b), len : 0..Len(b)] :
     /\ s.off + s.len - 1 <= Len(b)
     /\ \A k \in 0..(s.len - 1) : b[s.off + k] # NUL}

\* the characters a string_view denotes
ViewText(b, s) == SubSeq(b, s.off, s.off + s.len - 1)

\* strlen: the number of chars from p up to the first NUL
strlen(b, p) ==
  CHOOSE n \in 0..Len(b) :
    /\ p + n <= Len(b) /\ b[p + n] = NUL
    /\ \A k \in 0..(n - 1) : b[p + k] # NUL

\* std::string_view(const char*): from the pointer up to the first NUL
string_view_of_charptr(b, p) == [off |-> p, len |-> strlen(b, p)]

\* the text a char* denotes to whoever receives only the pointer
CString(b, p) == ViewText(b, string_view_of_charptr(b, p))

\* string2charptr: s.data(), the length of the view is dropped
string2charptr(s) == s.off

\* transformStringList: one pointer per view, in order
transformStringList(v) == [i \in 1..Len(v) |-> string2charptr(v[i])]

\* transformCharPtrPtr: one string_view per pointer, in order
transformCharPtrPtr(b, str, size) ==
  [i \in 1..size |-> string_view_of_charptr(b, str[i])]

InitStr ==
  /\ InitObjects
  /\ InitCalls
  /\ mem \in Buffers
  /\ list \in SeqsUpTo(Views(mem), MaxList)

\* vc = transformStringList(list)
CallTransformStringList ==
  /\ ret' = [op |-> "transformStringList", vc |-> transformStringList(list)]
  /\ UNCHANGED <<objs, toolkit, process, lastCall, mem, list, attrs, lastSet>>

\* l = transformCharPtrPtr(transformStringList(list).data(), list.size())
CallRoundTrip ==
  /\ ret' = [op |-> "transformCharPtrPtr",
             l |-> transformCharPtrPtr(mem, transformStringList(list), Len(list))]
  /\ UNCHANGED <<objs, toolkit, process, lastCall, mem, list, attrs, lastSet>>

NextStr ==
  \/ CallTransformStringList /\ UNCHANGED display
  \/ CallRoundTrip /\ UNCHANGED display

SpecStr == InitStr /\ [][NextStr]_vars

\* ------------------------------------------------- widget methods, calls
\* the value get<A> returns for the widget object w in the current state
GetterValue(w, a) ==
  GetterResult(a, ToolkitGet(attrs[objs[w]._ptr],
                             GetterEntry(objs[w].cls, a), GetterArgs(a)))

Owns(w) == IsWidget(w) /\ objs[w]._ptr # NULL

\* the function f with the value x at a
With(f, a, x) == [b \in DOMAIN f \cup {a} |-> IF b = a THEN x ELSE f[b]]

\* setBox, setFillerChar, ..., setDate, setMarker
set_attr(w, a, x) ==
  /\ Owns(w)
  /\ a \in WidgetAttrs(objs[w].cls)
  /\ x \in AttrValues(a)
  /\ attrs' = [attrs EXCEPT ![objs[w]._ptr] =
                 ToolkitSet(@, SetterEntry(objs[w].cls, a), SetterArgs(a, x))]
  /\ lastSet' = IF a = "Marker"
                 THEN With(With(lastSet, a, x), "MarkerDayFree",
                           GetterValue(w, a) = {})
                 ELSE With(lastSet, a, x)
  /\ ret' = [op |-> "set", a |-> a]
  /\ UNCHANGED <<objs, hkind, destroyed, hparent, registered, process,
                 lastCall, mem, list>>

\* getBox, getFillerChar, ..., getDate, getMarker
get_attr(w, a) ==
  /\ Owns(w)
  /\ a \in WidgetAttrs(objs[w].cls)
  /\ ret' = [op |-> "get", a |-> a, val |-> GetterValue(w, a)]
  /\ UNCHANGED <<objs, toolkit, process, lastCall, mem, list, attrs, lastSet>>

\* ---- messages
\* chtype: a character with its display attributes in one integer wider than
\* a char; char2Chtype turns a C string into a string of chtype cells.
char2Chtype(text) == [i \in 1..Len(text) |-> [ch |-> text[i], attr |-> {}]]

\* The bytes of a chtype string and of the zero cell that ends it, as a char*
\* sees them: per cell the byte holding the character and a byte standing
\* for the higher bytes, which are zero when the cell has no attributes; the
\* character byte comes first on a little-endian build.
ChtypeBytes(cells, endian) ==
  [j \in 1..(2 * (Len(cells) + 1)) |->
     LET i == (j + 1) \div 2
         low == IF endian = "little" THEN j % 2 = 1 ELSE j % 2 = 0
     IN IF i <= Len(cells) /\ low THEN cells[i].ch ELSE NUL]

\* std::string_view(reinterpret_cast<char*>(p)) for p pointing to chtype cells
reinterpret_cast_charptr(cells, endian) ==
  CString(ChtypeBytes(cells, endian), 1)

\* setCDKLabelMessage(h, v.data(), v.size()): the toolkit reads a C string
\* at each pointer
setCDKLabelMessage(b, ptrs, size) ==
  [i \in 1..size |-> char2Chtype(CString(b, ptrs[i]))]

\* setCDKButtonMessage(h, message.data())
setCDKButtonMessage(b, ptr) == char2Chtype(CString(b, ptr))

\* label::setMessage(StringList message)
label_setMessage(w, message) ==
  /\ Owns(w) /\ objs[w].cls = "label"
  /\ attrs' = [attrs EXCEPT ![objs[w]._ptr][MessageEntry("label")] =
                 setCDKLabelMessage(mem, transformStringList(message),
                                    Len(message))]
  /\ lastSet' = With(lastSet, "Message",
                     [i \in 1..Len(message) |-> ViewText(mem, message[i])])
  /\ ret' = [op |-> "setMessage"]
  /\ UNCHANGED <<objs, toolkit, process, lastCall, mem, list>>

\* label::getMessage()
label_getMessage(w) ==
  /\ Owns(w) /\ objs[w].cls = "label"
  /\ LET msg == attrs[objs[w]._ptr][MessageEntry("label")]
         linesCount == Len(msg)
     IN \E endian \in {"little", "big"} :
          ret' = [op |-> "getMessage",
                  val |-> [i \in 1..linesCount |->
                             reinterpret_cast_charptr(msg[i], endian)]]
  /\ UNCHANGED <<objs, toolkit, process, lastCall, mem, list, attrs, lastSet>>

\* button::setMessage(std::string_view message)
button_setMessage(w, message) ==
  /\ Owns(w) /\ objs[w].cls = "button"
  /\ attrs' = [attrs EXCEPT ![objs[w]._ptr][MessageEntry("button")] =
                 setCDKButtonMessage(mem, message.off)]
  /\ lastSet' = With(lastSet, "Message", ViewText(mem, message))
  /\ ret' = [op |-> "setMessage"]
  /\ UNCHANGED <<objs, toolkit, process, lastCall, mem, list>>

\* button::getMessage()
button_getMessage(w) ==
  /\ Owns(w) /\ objs[w].cls = "button"
  /\ LET msg == attrs[objs[w]._ptr][MessageEntry("button")]
     IN \E endian \in {"little", "big"} :
          ret' = [op |-> "getMessage",
                  val |-> reinterpret_cast_charptr(msg, endian)]
  /\ UNCHANGED <<objs, toolkit, process, lastCall, mem, list, attrs, lastSet>>

\* ---- activate and inject
IntResult(n) == [k |-> "int", v |-> <<n>>]
NullPtr == [k |-> "null", v |-> <<>>]
CharPtr(text) == [k |-> "text", v |-> text]
Outcome(what) == [k |-> what, v |-> <<>>]

Interactive == {"button", "text_entry", "alpha_list", "calendar"}

\* the toolkit entry point activate / inject of class c forwards to
InteractEntry(c, m) ==
  CASE c = "button" /\ m = "activate" -> "activateCDKButton"
    [] c = "button" /\ m = "inject" -> "injectCDKButtonbox"
    [] c = "text_entry" /\ m = "activate" -> "activateCDKEntry"
    [] c = "text_entry" /\ m = "inject" -> "injectCDKEntry"
    [] c = "alpha_list" /\ m = "activate" -> "activateCDKAlphalist"
    [] c = "alpha_list" /\ m = "inject" -> "injectCDKAlphalist"
    [] c = "calendar" /\ m = "activate" -> "activateCDKCalendar"
    [] c = "calendar" /\ m = "inject" -> "injectCDKCalendar"

\* What the toolkit call can return: a selection or -1 (button), the text
\* entered or a null pointer (entry, alphalist), a time or (time_t)-1.
ToolkitReturns(c) ==
  CASE c = "button" -> {IntResult(-1), IntResult(0)}
    [] c = "text_entry" -> {NullPtr, CharPtr(<<1>>)}
    [] c = "alpha_list" -> {NullPtr, CharPtr(<<1>>)}
    [] c = "calendar" -> {IntResult(-1), IntResult(1)}

\* What the method hands to its caller.  alpha_list::activate builds a
\* std::string from the char*; from a null pointer that is undefined: the
\* constructor throws std::logic_error or reads through the null pointer.
MethodReturns(c, m, t) ==
  IF c = "alpha_list" /\ m = "activate"
  THEN IF t = NullPtr THEN {Outcome("throws"), Outcome("crash")}
       ELSE {CharPtr(t.v)}
  ELSE {t}

\* activate(actions)
activate(w) ==
  /\ Owns(w) /\ objs[w].cls \in Interactive
  /\ \E t \in ToolkitReturns(objs[w].cls) :
     \E r \in MethodReturns(objs[w].cls, "activate", t) :
       ret' = [op |-> "activate", fn |-> InteractEntry(objs[w].cls, "activate"),
               val |-> r, tk |-> t]
  /\ UNCHANGED <<objs, toolkit, process, lastCall, mem, list, attrs, lastSet>>

\* inject(input)
inject(w) ==
  /\ Owns(w) /\ objs[w].cls \in Interactive
  /\ \E t \in ToolkitReturns(objs[w].cls) :
     \E r \in MethodReturns(objs[w].cls, "inject", t) :
       ret' = [op |-> "inject", fn |-> InteractEntry(objs[w].cls, "inject"),
               val |-> r, tk |-> t]
  /\ UNCHANGED <<objs, toolkit, process, lastCall, mem, list, attrs, lastSet>>

\* ---- the widget methods on one constructed widget
\* a char buffer holding one string literal: no NUL before the last char
Literals == {b \in Buffers : \A i \in 1..(Len(b) - 1) : b[i] # NUL}

\* The state after `screen scr(w); C widget(scr, ...);` with both creation
\* calls successful, for a widget class C; the calendar's constructor has
\* taken the screen over and released it.
AfterConstruction(c) ==
  /\ objs = [o \in Objs |->
               IF o = 1
               THEN [st |-> "live", cls |-> "screen",
                     _ptr |-> IF c = "calendar" THEN NULL ELSE 1,
                     _vptr |-> NULL, wtype |-> "vNULL", type |-> "vNULL"]
               ELSE IF o = 2
               THEN [st |-> "live", cls |-> c, _ptr |-> 2, _vptr |-> 2,
                     wtype |-> widget_type, type |-> DerivedType(c)]
               ELSE NoObject]
  /\ hkind = [h \in Handles |->
                IF h = 1 THEN "screen" ELSE IF h = 2 THEN c ELSE "free"]
  /\ destroyed = [h \in Handles |->
                    IF h = 1 /\ c = "calendar" THEN <<"destroyCDKScreen">>
                    ELSE <<>>]
  /\ hparent = [h \in Handles |-> IF h = 2 THEN 1 ELSE NULL]
  /\ registered = [h \in Handles |-> IF h = 2 THEN 1 ELSE NULL]
  /\ atexit_installed = TRUE
  /\ atexitRegs = 1
  /\ endCalls = 0
  /\ exited = FALSE
  /\ lastCall = NoCall
  /\ attrs = [h \in Handles |->
                ToolkitNewAttrs(IF h = 2 THEN c ELSE "screen")]
  /\ lastSet = NoAttrs
  /\ ret = NoReturn
  /\ erased = {}
  /\ pc = "none"

InitAttr ==
  \E c \in WidgetClasses :
    /\ AfterConstruction(c)
    /\ mem \in (IF c \in {"label", "button"} THEN Literals ELSE {<<NUL>>})
    /\ list = <<>>

NextAttr ==
  \/ \E w \in Objs : \E a \in WidgetAttrs(objs[w].cls) :
       \E x \in AttrValues(a) : set_attr(w, a, x)
       /\ UNCHANGED display
  \/ \E w \in Objs : \E a \in WidgetAttrs(objs[w].cls) : get_attr(w, a)
       /\ UNCHANGED display
  \/ \E w \in Objs, m \in SeqsUpTo(Views(mem), MaxLines) : label_setMessage(w, m)
       /\ UNCHANGED display
  \/ \E w \in Objs : label_getMessage(w)
       /\ UNCHANGED display
  \/ \E w \in Objs, m \in Views(mem) : button_setMessage(w, m)
       /\ UNCHANGED display
  \/ \E w \in Objs : button_getMessage(w)
       /\ UNCHANGED display
  \/ \E w \in Objs : activate(w)
       /\ UNCHANGED display
  \/ \E w \in Objs : inject(w)
       /\ UNCHANGED display

SpecAttr == InitAttr /\ [][NextAttr]_vars

\* --------------------------------- widget methods, forwarding: actions
\* libcdk: an erase call takes the widget off the terminal, a draw call puts
\* it back, and only a destroy call destroys it.
eraseCDKWidget(er, p) == IF p = NULL THEN er ELSE er \cup {p}
drawCDKWidget(er, p) == er \ {p}
\* libcdk: eraseCDKScreen erases the widgets registered with the screen.
eraseCDKScreen(er, scr) == er \cup refreshCDKScreen(scr)

\* libcdk: what the call of entry point e on the handle p does to the
\* widgets on the terminal and to the native objects
ToolkitErased(er, e, p) ==
  CASE e.verb = "erase" -> eraseCDKWidget(er, p)
    [] e.verb = "draw" -> drawCDKWidget(er, p)
    [] OTHER -> er

ToolkitDestroyed(d, e, p) ==
  IF e.verb = "destroy" /\ p # NULL
  THEN ToolkitDestroy(d, MatchingDestroy(hkind[p]), p)
  ELSE d

\* Any method m of the class of w, as far as it forwards: one call of
\* Forward(c, m) on _ptr.get() with the caller's arguments.
method(w, m) ==
  /\ ~exited
  /\ IsWidget(w)
  /\ LET e == Forward(objs[w].cls, m)
         p == objs[w]._ptr
     IN /\ lastCall' = ForwardCall(e, p, w, objs[w].cls, m,
                                   ForwardArgs(objs[w].cls, m))
        /\ erased' = ToolkitErased(erased, e, p)
        /\ destroyed' = ToolkitDestroyed(destroyed, e, p)
  /\ UNCHANGED <<objs, hkind, hparent, registered, process, callvars, pc>>

\* screen::erase
screen_erase(s) ==
  /\ ~exited
  /\ IsScreen(s)
  /\ lastCall' = Call("eraseCDKScreen", "vNULL", NULL, objs[s]._ptr,
                      "screen", objs[s]._ptr, refreshCDKScreen(objs[s]._ptr))
  /\ erased' = eraseCDKScreen(erased, objs[s]._ptr)
  /\ UNCHANGED <<objs, toolkit, process, callvars, pc>>

\* SpecCalls uses one screen and one widget at a time: an object of one of
\* the classes C is constructed only while no object of those classes exists.
Unconstructed(C) == \A q \in DOMAIN objs : objs[q].cls \notin C

\* The methods, on a screen and a widget that are constructed (by a creating
\* or a defaulted constructor) and destroyed while the methods are called.
NextCalls ==
  \/ \E o \in Objs :
       Unconstructed({"screen"}) /\ screen_ctor(o) /\ LowestFirst'
       /\ UNCHANGED display
  \/ \E c \in ByRefParent, o, s \in Objs :
       Unconstructed(WidgetClasses) /\ widget_ctor(c, o, s) /\ LowestFirst'
       /\ UNCHANGED display
  \/ \E o, s \in Objs :
       Unconstructed(WidgetClasses) /\ calendar_ctor(o, s) /\ LowestFirst'
       /\ UNCHANGED display
  \/ \E c \in DefaultConstructible, o \in Objs :
       Unconstructed(WidgetClasses) /\ default_ctor(c, o)
       /\ UNCHANGED display
  \/ \E o \in Objs :
       MayDestroy(o) /\ dtor(o)
       /\ UNCHANGED display
  \/ \E w \in Objs : \E m \in Methods(objs[w].cls) : method(w, m)
  \/ \E s \in Objs : screen_erase(s)
  \/ \E w \in Objs : lowerObject(w)
       /\ UNCHANGED display
  \/ \E w \in Objs : raiseObject(w)
       /\ UNCHANGED display
  \/ \E s, w \in Objs : registerObject(s, w)
       /\ UNCHANGED display
  \/ \E w \in Objs : unregisterObject(w)
       /\ UNCHANGED display

SpecCalls == Init /\ [][NextCalls]_vars

\* ------------------------------------------------------- demo.cpp: main
\* Storage of main's objects: the temporary of line 8 is gone when the button
\* is constructed, and the button takes its storage.
DemoSlot == [screen |-> 1, label |-> 2, temporary |-> 3, button |-> 3, al |-> 4]
DemoObjs == 1..4
\* main makes four creation calls: a screen, a label, a button, an alphalist
DemoHandles == 1..4

\* main is entered: no object, no native handle
InitDemo ==
  /\ objs = [o \in DemoObjs |-> NoObject]
  /\ hkind = [h \in DemoHandles |-> "free"]
  /\ destroyed = [h \in DemoHandles |-> <<>>]
  /\ hparent = [h \in DemoHandles |-> NULL]
  /\ registered = [h \in DemoHandles |-> NULL]
  /\ atexit_installed = FALSE
  /\ atexitRegs = 0
  /\ endCalls = 0
  /\ exited = FALSE
  /\ lastCall = NoCall
  /\ attrs = [h \in DemoHandles |-> ToolkitNewAttrs("free")]
  /\ lastSet = NoAttrs
  /\ ret = NoReturn
  /\ mem = <<NUL>>
  /\ list = <<>>
  /\ erased = {}
  /\ pc = "line 6"

\* main, statement by statement.  A statement whose toolkit call would get a
\* null screen or widget handle does not complete (the toolkit reads through
\* the handle) and the run ends there.
NextDemo ==
  \/ /\ pc = "line 6"
     /\ screen_ctor(DemoSlot.screen)
     /\ pc' = "line 7" /\ UNCHANGED erased
  \/ /\ pc = "line 7"
     /\ default_ctor("label", DemoSlot.label)
     /\ pc' = "line 8" /\ UNCHANGED erased
  \/ /\ pc = "line 8"
     /\ widget_ctor("label", DemoSlot.temporary, DemoSlot.screen)
     /\ pc' = "line 8: operator=" /\ UNCHANGED erased
  \/ /\ pc = "line 8: operator="
     /\ move_assign(DemoSlot.label, DemoSlot.temporary)
     /\ pc' = "line 8: ~label" /\ UNCHANGED erased
  \/ /\ pc = "line 8: ~label"
     /\ dtor(DemoSlot.temporary)
     /\ pc' = "line 9" /\ UNCHANGED erased
  \/ /\ pc = "line 9"
     /\ widget_ctor("button", DemoSlot.button, DemoSlot.screen)
     /\ pc' = "line 10" /\ UNCHANGED erased
  \/ /\ pc = "line 10"
     /\ widget_ctor("alpha_list", DemoSlot.al, DemoSlot.screen)
     /\ pc' = "line 11" /\ UNCHANGED erased
  \/ /\ pc = "line 11"
     /\ refresh(DemoSlot.screen)
     /\ pc' = "line 12" /\ UNCHANGED erased
  \/ /\ pc = "line 12"
     /\ activate(DemoSlot.button)
     /\ pc' = "line 13" /\ UNCHANGED erased
  \/ /\ pc = "line 13"
     /\ dtor(DemoSlot.al)
     /\ pc' = "line 13: ~button" /\ UNCHANGED erased
  \/ /\ pc = "line 13: ~button"
     /\ dtor(DemoSlot.button)
     /\ pc' = "line 13: ~label" /\ UNCHANGED erased
  \/ /\ pc = "line 13: ~label"
     /\ dtor(DemoSlot.label)
     /\ pc' = "line 13: ~screen" /\ UNCHANGED erased
  \/ /\ pc = "line 13: ~screen"
     /\ dtor(DemoSlot.screen)
     /\ pc' = "exit" /\ UNCHANGED erased
  \/ /\ pc = "exit"
     /\ exit
     /\ pc' = "exited" /\ UNCHANGED erased

SpecDemo == InitDemo /\ [][NextDemo]_vars

\* =================================================================== claims
WidgetHandle(h) == hkind[h] \in WidgetClasses
ScreenHandle(h) == hkind[h] = "screen"
DispatchFns == {"lowerCDKObject", "raiseCDKObject", "registerCDKObject",
                "unregisterCDKObject"}

\* C1: every non-null native handle a creation call returned is passed to the
\* destroy function matching its kind at most once while the program runs,
\* and exactly once by the time every wrapper object has been destroyed.
C1_ReleasedExactlyOnce ==
  /\ \A h \in Handles : Len(destroyed[h]) <= 1
  /\ \A h \in Handles :
       Released(h) => Allocated(h) /\ destroyed[h][1] = MatchingDestroy(hkind[h])
  /\ (\A o \in Objs : ~Live(o)) =>
       \A h \in Handles : Allocated(h) => Len(destroyed[h]) = 1

\* A label handle was moved out of an object that is still alive, and has been
\* released once through the object it was moved to.
C1_Witness ==
  \E o \in Objs, h \in Handles :
    /\ Live(o) /\ objs[o].cls = "label"
    /\ objs[o]._ptr = NULL /\ objs[o]._vptr = h
    /\ destroyed[h] = <<"destroyCDKLabel">>

\* C2: no widget handle is alive while the screen handle it was made on has
\* been released (the caller releasing a screen only after its widgets).
C2_ParentOutlivesWidget ==
  \A h \in Handles :
    Alive(h) /\ WidgetHandle(h) => Alive(hparent[h])

\* C3: no two wrapper objects own the same native handle, an owned handle is
\* alive and of the owner's kind, and when a handle passes from one object to
\* another the object it came from owns nothing afterwards.
C3_ExclusiveOwnership ==
  /\ [](\A o1, o2 \in Objs :
          Live(o1) /\ Live(o2) /\ o1 # o2 /\ objs[o1]._ptr # NULL
            => objs[o1]._ptr # objs[o2]._ptr)
  /\ [](\A o \in Objs :
          Live(o) /\ objs[o]._ptr # NULL
            => Alive(objs[o]._ptr) /\ hkind[objs[o]._ptr] = objs[o].cls)
  /\ [][\A o1, o2 \in Objs : \A h \in Handles :
          o1 # o2 /\ Live(o1) /\ objs[o1]._ptr = h /\ objs'[o2]._ptr = h
            => objs'[o1]._ptr = NULL /\ objs'[o2].st = "live"]_vars

\* A moved-from widget is alive beside the object that now owns its handle.
C3_Witness ==
  \E o1, o2 \in Objs, h \in Handles :
    /\ o1 # o2 /\ Live(o1) /\ Live(o2)
    /\ objs[o1]._ptr = NULL /\ objs[o1]._vptr = h
    /\ objs[o2]._ptr = h /\ Alive(h)

\* C4: when a widget that owns a handle is passed to lowerObject, raiseObject,
\* registerObject or unregisterObject, the tag forwarded is the tag of the
\* widget's class and the pointer forwarded is the widget's handle.
C4_TagOfClass ==
  lastCall.fn \in DispatchFns /\ lastCall.own # NULL
    => lastCall.tag = DerivedType(lastCall.cls) /\ lastCall.ptr = lastCall.own

\* C8 (as stated): once a screen handle has been released by the destruction
\* of its screen object, the global teardown call endCDK has been made.
C8_DestroyTearsDown ==
  \A h \in Handles : ScreenHandle(h) /\ Released(h) => endCalls >= 1

\* C8 (amended): destroying a screen releases its handle via destroyCDKScreen
\* and makes no endCDK call; endCDK is called once, at process exit, by the
\* exit handler, if a screen was ever constructed.
C8_TeardownAtExit ==
  /\ \A h \in Handles :
       ScreenHandle(h) /\ Released(h) => destroyed[h] = <<"destroyCDKScreen">>
  /\ ~exited => endCalls = 0
  /\ exited => endCalls = (IF atexit_installed THEN 1 ELSE 0)
  /\ atexit_installed \/ \A h \in Handles : ~ScreenHandle(h)

\* Two screens were constructed and destroyed, and the process has exited.
C8_Witness ==
  /\ exited /\ endCalls = 1
  /\ \A h \in Handles : ScreenHandle(h) /\ Released(h)

\* C9: after unregisterObject(w) on a widget that owns a handle, the handle is
\* not released and is among the widgets no screen's refresh redraws; after
\* registerObject(w) it is among the widgets that screen's refresh redraws.
C9_UnregisterRegister ==
  /\ lastCall.fn = "unregisterCDKObject" /\ lastCall.own # NULL
       => /\ Alive(lastCall.own)
          /\ \A p \in Handles : lastCall.own \notin refreshCDKScreen(p)
  /\ lastCall.fn = "registerCDKObject" /\ lastCall.own # NULL
       => lastCall.own \in refreshCDKScreen(lastCall.scr)

\* C10: transformStringList(v) has one entry per element of v, in order, each
\* denoting the text of that element; and transformCharPtrPtr applied to it
\* gives back a list equal to v element by element.
C10_RoundTrip ==
  /\ ret.op = "transformStringList" =>
       /\ Len(ret.vc) = Len(list)
       /\ \A i \in 1..Len(list) : CString(mem, ret.vc[i]) = ViewText(mem, list[i])
  /\ ret.op = "transformCharPtrPtr" =>
       /\ Len(ret.l) = Len(list)
       /\ \A i \in 1..Len(list) : ViewText(mem, ret.l[i]) = ViewText(mem, list[i])

\* C5: getMessage called after setMessage(m) returns m: for a label the same
\* lines, for a button the same string.
C5_MessageLastSet ==
  ret.op = "getMessage" /\ "Message" \in DOMAIN lastSet
    => ret.val = lastSet["Message"]

\* C6: activate and inject return to the caller the value the toolkit call
\* returned, the toolkit's sentinel results included.
C6_ReturnsToolkitValue ==
  ret.op \in {"activate", "inject"} => ret.val = ret.tk

\* C7 (as stated): a scalar getter called after its setter returns the value
\* last passed to the setter.
C7_GetterLastSet ==
  ret.op = "get" /\ ret.a \in DOMAIN lastSet => ret.val = lastSet[ret.a]

\* C7 (amended): a scalar getter called after its setter returns the value
\* last passed to the setter, getMarker only when the day had no marker when
\* the marker was set; and a setter leaves what the other getters return
\* unchanged.
C7_GetterLastSetUnlessMarked ==
  /\ [](ret.op = "get" /\ ret.a \in DOMAIN lastSet
          /\ (ret.a = "Marker" => lastSet["MarkerDayFree"])
        => ret.val = lastSet[ret.a])
  /\ [][\A w \in Objs : \A b \in WidgetAttrs(objs[w].cls) :
          Owns(w) /\ ret'.op = "set" /\ ret'.a # b
            => GetterValue(w, b)' = GetterValue(w, b)]_vars

\* getDate has returned the date passed to setDate, with other calendar
\* attributes set in between.
C7_Witness ==
  /\ ret.op = "get" /\ ret.a = "Date"
  /\ {"Date", "DayAttribute", "Marker"} \subseteq DOMAIN lastSet
  /\ ret.val = lastSet["Date"]


\* a call of screen::erase or of a widget's erase
EraseCall(call) ==
  \/ IsForwardCall(call) /\ call.m = M("erase", "")
  \/ call.fn = "eraseCDKScreen"

\* C11: screen::erase() and each widget's erase() destroy nothing: an erase
\* call leaves the destroy calls made so far and every object's owned handle
\* as they were, a handle that was erased has received at most one destroy
\* call, from the destroy function of its kind, and only once no object owns
\* it any more, and the destructor of a widget that owns an erased handle
\* makes exactly one destroy call on it.
C11_EraseDestroysNothing ==
  /\ [][EraseCall(lastCall') => destroyed' = destroyed /\ objs' = objs]_vars
  /\ [](\A h \in erased :
          /\ Len(destroyed[h]) <= 1
          /\ \A i \in 1..Len(destroyed[h]) :
               destroyed[h][i] = MatchingDestroy(hkind[h])
          /\ Released(h) <=> \A o \in Objs : ~(Live(o) /\ objs[o]._ptr = h))
  /\ [][\A o \in Objs :
          Live(o) /\ ~Live(o)' /\ objs[o]._ptr \in erased
            => destroyed'[objs[o]._ptr] = <<MatchingDestroy(objs[o].cls)>>]_vars

\* a widget handle that was erased and later released by the one destroy call
C11_Witness ==
  \E h \in erased :
    /\ WidgetHandle(h)
    /\ destroyed[h] = <<MatchingDestroy(hkind[h])>>
    /\ \A o \in Objs : ~(Live(o) /\ objs[o]._ptr = h)

\* C12: every widget method (and constructor) makes its toolkit call on the
\* entry point of the widget's own kind and of the method's operation, passes
\* the handle the widget owns, and passes the caller's arguments in the order
\* of the toolkit's parameters.
C12_ForwardsOneToOne ==
  IsForwardCall(lastCall) =>
    /\ lastCall.entry = Entry(lastCall.m.verb, CDKKind(lastCall.cls),
                              lastCall.m.what)
    /\ lastCall.m.verb # "new" => lastCall.ptr = objs[lastCall.obj]._ptr
    /\ lastCall.args = ToolkitParams(lastCall.cls, lastCall.m)

\* a step that constructs a screen object in the storage o
ScreenConstructed(o) ==
  /\ ~Live(o) /\ Live(o)'
  /\ objs'[o].cls = "screen"
  /\ \A q \in Objs \ {o} : objs'[q] = objs[q]

\* C13: endCDK is registered with atexit exactly once however many screens
\* are constructed, by the first screen constructor, and never when no screen
\* is constructed: there is never more than one registration, every step
\* that constructs a screen object ends with exactly one, and only a step
\* that constructs a screen object, with no registration made before it,
\* makes one.
C13_AtexitOnce ==
  /\ [](atexitRegs <= 1)
  /\ []((\A o \in Objs : objs[o].cls # "screen")
          /\ (\A h \in Handles : ~ScreenHandle(h)) /\ ~atexit_installed
        => atexitRegs = 0)
  /\ [][(\E o \in Objs : ScreenConstructed(o)) => atexitRegs' = 1]_vars
  /\ [][atexitRegs' # atexitRegs
          => /\ \E o \in Objs : ScreenConstructed(o)
             /\ atexitRegs = 0 /\ ~atexit_installed
             /\ \A h \in Handles : ~ScreenHandle(h)]_vars

\* two screens constructed, both alive, and one registration
C13_Witness ==
  /\ atexitRegs = 1
  /\ \E o1, o2 \in Objs :
       /\ o1 # o2
       /\ IsScreen(o1) /\ IsScreen(o2)
       /\ objs[o1]._ptr # NULL /\ objs[o2]._ptr # NULL
       /\ objs[o1]._ptr # objs[o2]._ptr

\* C14: in the demo's run every widget handle is destroyed before the
\* screen handle, the screen handle (every handle) is destroyed before endCDK
\* runs, endCDK has run exactly once when the process has exited and no
\* toolkit call follows it, and no toolkit call (a destroy call, a creation
\* call on the screen, refresh, activate) gets a handle that was destroyed.
C14_DemoTeardownOrder ==
  /\ [](\A s, h \in DemoHandles :
          ScreenHandle(s) /\ Released(s) /\ WidgetHandle(h) => Released(h))
  /\ [](endCalls >= 1 => \A h \in DemoHandles : Allocated(h) => Released(h))
  /\ [](endCalls <= 1 /\ (pc = "exited" => endCalls = 1))
  /\ [][endCalls >= 1
          => UNCHANGED <<toolkit, lastCall, attrs, ret, erased>>]_vars
  /\ [][/\ \A h \in DemoHandles :
             destroyed'[h] # destroyed[h] => Alive(h) /\ Len(destroyed'[h]) = 1
        /\ lastCall'.fn # "none" /\ lastCall' # lastCall
             => /\ lastCall'.ptr # NULL => Alive(lastCall'.ptr)
                /\ lastCall'.scr # NULL => Alive(lastCall'.scr)
        /\ ret' # ret
             => /\ objs[DemoSlot.button]._ptr # NULL
                /\ Alive(objs[DemoSlot.button]._ptr)]_vars

\* the demo has run to the end with all four creation calls successful: the
\* four handles were destroyed once each and endCDK has run
C14_Witness ==
  /\ pc = "exited"
  /\ endCalls = 1
  /\ \A h \in DemoHandles : Allocated(h) /\ Len(destroyed[h]) = 1
  /\ ret.op = "activate"

\* C15: in every state of every widget object the base-class handle _vptr
\* equals the owned handle _ptr.get(): it is null exactly when the widget
\* owns no handle, and it is never a handle that another object owns or that
\* was destroyed.
C15_VptrIsOwned ==
  \A w \in Objs :
    IsWidget(w) =>
      /\ objs[w]._vptr = objs[w]._ptr
      /\ objs[w]._vptr = NULL <=> objs[w]._ptr = NULL
      /\ objs[w]._vptr # NULL =>
           /\ Alive(objs[w]._vptr)
           /\ \A o \in Objs \ {w} : Live(o) => objs[o]._ptr # objs[w]._vptr

\* a wrapper object whose unique_ptr is empty
OwnsNothing(o) == Live(o) /\ objs[o]._ptr = NULL

\* C16: a widget whose creation call returned null, or that was default
\* constructed, owns no handle: its _vptr is null too, every method called on
\* it and every screen method it is passed to forwards a null handle, and its
\* destruction makes no destroy call.
C16_NullOwnsNothing ==
  /\ [](\A w \in Objs : IsWidget(w) /\ OwnsNothing(w) => objs[w]._vptr = NULL)
  /\ [](IsForwardCall(lastCall) /\ lastCall.m.verb # "new"
          /\ OwnsNothing(lastCall.obj) => lastCall.ptr = NULL)
  /\ [](lastCall.fn \in DispatchFns /\ lastCall.own = NULL
          => lastCall.ptr = NULL)
  /\ [][\A o \in Objs :
          OwnsNothing(o) /\ ~Live(o)' => destroyed' = destroyed]_vars

\* a method was called on a widget whose creation call had returned null
\* (a text_entry has no default constructor), while the screen's handle is
\* alive, and the call got the null handle
C16_Witness ==
  \E w, s \in Objs :
    /\ IsWidget(w) /\ OwnsNothing(w) /\ objs[w].cls = "text_entry"
    /\ IsScreen(s) /\ objs[s]._ptr # NULL /\ Alive(objs[s]._ptr)
    /\ IsForwardCall(lastCall) /\ lastCall.m.verb # "new"
    /\ lastCall.obj = w /\ lastCall.ptr = NULL
====
